---- MODULE Spec2Model ----
(***************************************************************************)
(* Draggable radial menu (src/src/DraggableRadialMenu.tsx and its earlier  *)
(* revision src/unnamed/part_000): the useDraggable drag controller, the   *)
(* useRadialMenuPositions layout engine and the toggle / select arbiter of *)
(* the DraggableRadialMenu component.                                      *)
(*                                                                         *)
(* Numbers.  JavaScript numbers are modelled on integer lattices:          *)
(*   lengths        in units of 1/PX CSS pixel (half pixels: the code      *)
(*                  halves the integer sizes it is given),                 *)
(*   angles         in ticks, TICKS_PER_DEGREE ticks to the degree, so     *)
(*                  that ANGLE_EPSILON (1e-5 rad) is one tick,             *)
(*   cos, sin       in thousandths (COS_SCALE), from a table at the whole  *)
(*                  degrees and linear interpolation between them,         *)
(*   item offsets   (radius * cos) in units of 1/(PX * COS_SCALE) pixel,   *)
(*   squared distances as two-limb numbers <<high, low>> to the base       *)
(*                  WIDE_BASE, because they exceed 2^31.                   *)
(***************************************************************************)
EXTENDS Integers, Sequences, FiniteSets, TLC

VARIABLES
    variant,          \* which revision of the file runs: "src" or "part"
    props,            \* DraggableRadialMenuProps: items (their number), orbitRadius, itemSize,
                      \* mainButtonSize, dragThreshold, in CSS pixels, and itemSizeExcess,
                      \* the 1e-7 pixels that itemSize has above its whole pixels
    windowDefined,    \* typeof window !== 'undefined'
    innerSize,        \* window.innerWidth / window.innerHeight
    viewportSize,     \* useRadialMenuPositions: viewportSize state
    position,         \* useDraggable: position state (top-left corner of the anchor)
    isDragging,       \* useDraggable: isDragging state (and isDraggingRef.current)
    hasMovedBeyondThreshold,  \* useDraggable: hasMovedBeyondThreshold state
    dragStartOffset,  \* useDraggable: dragStartOffset state
    interactionStartCoords,   \* useDraggable: interactionStartCoords state, NoCoords for null
    isOpen,           \* DraggableRadialMenu: isOpen state
    isInteractingWithButton,  \* DraggableRadialMenu: the re-entrancy guard
    timers,           \* number of pending setTimeout callbacks that clear the guard
    hoveredItemId,    \* DraggableRadialMenu: hoveredItemId state (an item index), Null for null
    itemPositions,    \* useRadialMenuPositions: itemPositions state (the published placements)
    search,           \* how the last run of the layout effect went (radius, iterations, exit)
    mounted,          \* the component is mounted
    listeners,        \* number of handleInteractionMove (move) and handleInteractionEnd (up)
                      \* functions registered on the window
    pointer,          \* where the pointer was at the last pointer event a handler took
    gesture,          \* history of the press / move / release gesture in progress or just ended
    lastEvent         \* the event handled last, with the state it found

----------------------------------------------------------------------------
(* Units *)

PX == 2
COS_SCALE == 1000
TICKS_PER_DEGREE == 1680
WIDE_BASE == 1000000

Px(n) == PX * n

\* null / undefined
Null == -1000000
NoCoords == [x |-> Null, y |-> Null]

----------------------------------------------------------------------------
(* Program constants *)

Variants == {"src", "part"}

DEFAULT_DRAG_THRESHOLD == 5
ANGLE_EPSILON == 1
ANGLE_EPSILON_PX2 == 40
resolution == 360

\* the iteration caps of the two revisions taken for one another
MAX_ITERATIONS_OF_OTHER_REVISION == IF variant = "src" THEN 15 ELSE 10

MAX_ITERATIONS_FOR_RADIUS_ADJUSTMENT == IF variant = "src" THEN 10 ELSE 15
ORBIT_RADIUS_INCREMENT_PIXELS == IF variant = "src" THEN 5 ELSE 10
MAX_ORBIT_RADIUS_FACTOR == IF variant = "src" THEN 3 ELSE 4

angleStep == TICKS_PER_DEGREE
TWO_PI == resolution * angleStep

----------------------------------------------------------------------------
(* Math.cos, Math.sin, Math.max, Math.min *)

Max(a, b) == IF a >= b THEN a ELSE b
Min(a, b) == IF a <= b THEN a ELSE b

CosQuadrant ==
  << 1000, 1000, 999, 999, 998, 996, 995, 993, 990, 988, 985, 982, 978,
     974, 970, 966, 961, 956, 951, 946, 940, 934, 927, 921, 914, 906,
     899, 891, 883, 875, 866, 857, 848, 839, 829, 819, 809, 799, 788,
     777, 766, 755, 743, 731, 719, 707, 695, 682, 669, 656, 643, 629,
     616, 602, 588, 574, 559, 545, 530, 515, 500, 485, 469, 454, 438,
     423, 407, 391, 375, 358, 342, 326, 309, 292, 276, 259, 242, 225,
     208, 191, 174, 156, 139, 122, 105, 87, 70, 52, 35, 17, 0 >>

\* cos of a whole number of degrees, 0..360
CosDeg(d) ==
    IF d <= 90 THEN CosQuadrant[d + 1]
    ELSE IF d <= 180 THEN -CosQuadrant[180 - d + 1]
    ELSE IF d <= 270 THEN -CosQuadrant[d - 180 + 1]
    ELSE CosQuadrant[360 - d + 1]

\* num / den rounded to the nearest integer (den > 0)
RoundDiv(num, den) == (2 * num + den) \div (2 * den)

\* cos of an angle in ticks, 0 <= a < TWO_PI
Cos(a) ==
    LET d == a \div TICKS_PER_DEGREE
        f == a % TICKS_PER_DEGREE
    IN  IF f = 0 THEN CosDeg(d)
        ELSE RoundDiv(CosDeg(d) * (TICKS_PER_DEGREE - f) + CosDeg(d + 1) * f, TICKS_PER_DEGREE)

\* sin a = cos (a - 90 degrees)
Sin(a) == Cos((a + 270 * TICKS_PER_DEGREE) % TWO_PI)

----------------------------------------------------------------------------
(* Squared distances: two-limb arithmetic *)

Abs(v) == IF v < 0 THEN -v ELSE v

WideSq(v) ==
    LET m == Abs(v)
        a == m \div 1000
        b == m % 1000
        low == 2 * a * b * 1000 + b * b
    IN  <<a * a + low \div WIDE_BASE, low % WIDE_BASE>>

WideAdd(p, q) ==
    LET low == p[2] + q[2]
    IN  <<p[1] + q[1] + low \div WIDE_BASE, low % WIDE_BASE>>

\* p - e for a small e (0 <= e < WIDE_BASE)
WideMinus(p, e) ==
    IF p[2] >= e THEN <<p[1], p[2] - e>> ELSE <<p[1] - 1, p[2] + WIDE_BASE - e>>

WideLess(p, q) == p[1] < q[1] \/ (p[1] = q[1] /\ p[2] < q[2])

----------------------------------------------------------------------------
(* useRadialMenuPositions: safe angles and safe arcs of one iteration *)

\* isSafeAngle: the item's bounding square around
\* (mainButtonCenter + currentOrbitRadius * (cos, sin)) lies in the viewport
isSafeAngle(angle, currentOrbitRadius, cx, cy, itemRadius, vp) ==
    LET itemCenterX == cx * COS_SCALE + currentOrbitRadius * Cos(angle)
        itemCenterY == cy * COS_SCALE + currentOrbitRadius * Sin(angle)
        r == itemRadius * COS_SCALE
    IN  /\ itemCenterX - r >= 0
        /\ itemCenterX + r <= vp.width * COS_SCALE
        /\ itemCenterY - r >= 0
        /\ itemCenterY + r <= vp.height * COS_SCALE

\* potentialAngles[i].safe, i in 0 .. resolution - 1 (potentialAngles[i].angle = i * angleStep)
PotentialAngles(currentOrbitRadius, cx, cy, itemRadius, vp) ==
    [i \in 0 .. resolution - 1 |->
        isSafeAngle(i * angleStep, currentOrbitRadius, cx, cy, itemRadius, vp)]

\* the first index in lo .. hi whose sample has safety `want`, Null if none
\* (the sample at index resolution, past the last one, counts as unsafe)
RECURSIVE FirstSample(_, _, _, _)
FirstSample(safe, want, lo, hi) ==
    IF lo > hi THEN Null
    ELSE IF lo = hi
    THEN IF (IF lo < resolution THEN safe[lo] ELSE FALSE) = want THEN lo ELSE Null
    ELSE LET mid == (lo + hi) \div 2
             left == FirstSample(safe, want, lo, mid)
         IN  IF left # Null THEN left ELSE FirstSample(safe, want, mid + 1, hi)

\* the extraction loop stopped at the last sample (i < resolution): a run that
\* reaches the last sample is never closed
RECURSIVE ExtractArcsToLastSample(_, _, _)
ExtractArcsToLastSample(safe, i, safeArcs) ==
    LET opened == FirstSample(safe, TRUE, i, resolution - 1)
    IN  IF opened = Null THEN safeArcs
        ELSE LET closed == FirstSample(safe, FALSE, opened + 1, resolution - 1)
             IN  IF closed = Null THEN safeArcs
                 ELSE ExtractArcsToLastSample(safe, closed + 1,
                        Append(safeArcs, [start |-> opened * angleStep,
                                          end |-> closed * angleStep,
                                          length |-> (closed - opened) * angleStep]))

\* the loop for (i = 0; i <= resolution; i++), taken from index i with no arc
\* open: it opens an arc at the next safe sample and closes it at the first
\* unsafe sample after that (the sample past the last one counts as unsafe)
RECURSIVE ExtractArcs(_, _, _)
ExtractArcs(safe, i, safeArcs) ==
    LET opened == FirstSample(safe, TRUE, i, resolution - 1)
    IN  IF opened = Null THEN safeArcs
        ELSE LET closed == FirstSample(safe, FALSE, opened + 1, resolution)
                 currentArcStart == opened * angleStep
                 currentAngle == IF closed < resolution THEN closed * angleStep
                                 ELSE (resolution - 1) * angleStep + angleStep
             IN  ExtractArcs(safe, closed + 1,
                    IF currentAngle > currentArcStart + ANGLE_EPSILON
                    THEN Append(safeArcs, [start |-> currentArcStart, end |-> currentAngle,
                                           length |-> currentAngle - currentArcStart])
                    ELSE safeArcs)

\* Array.prototype.find / findIndex: the first index whose arc satisfies the test, 0 if none
FirstArcIndex(safeArcs) ==
    LET hit == {k \in 1 .. Len(safeArcs) : Abs(safeArcs[k].start - 0 * angleStep) < ANGLE_EPSILON}
    IN  IF hit = {} THEN 0 ELSE CHOOSE k \in hit : \A m \in hit : k <= m

LastArcIndex(safeArcs) ==
    LET hit == {k \in 1 .. Len(safeArcs) :
                    Abs(safeArcs[k].end - ((resolution - 1) * angleStep + angleStep)) < ANGLE_EPSILON}
    IN  IF hit = {} THEN 0 ELSE CHOOSE k \in hit : \A m \in hit : k <= m

\* s without its elements at the indices in drop
RECURSIVE Without(_, _, _)
Without(s, drop, k) ==
    IF k > Len(s) THEN <<>>
    ELSE IF k \in drop THEN Without(s, drop, k + 1)
    ELSE <<s[k]>> \o Without(s, drop, k + 1)

\* a merge whose combined arc has the length of the arc that ends at 2*pi alone
MergeWrapAroundKeepsLastLength(safe, safeArcs) ==
    IF safe[0] /\ safe[resolution - 1] /\ Len(safeArcs) > 1
    THEN LET f == FirstArcIndex(safeArcs)
             l == LastArcIndex(safeArcs)
         IN  IF f # 0 /\ l # 0 /\ f # l
             THEN Append(Without(safeArcs, {f, l}, 1),
                         [start |-> safeArcs[l].start,
                          end |-> safeArcs[f].end + TWO_PI,
                          length |-> safeArcs[l].length])
             ELSE safeArcs
    ELSE safeArcs

\* a merge whose combined arc ends at the first arc's end, not a turn later
MergeWrapAroundNoTurn(safe, safeArcs) ==
    IF safe[0] /\ safe[resolution - 1] /\ Len(safeArcs) > 1
    THEN LET f == FirstArcIndex(safeArcs)
             l == LastArcIndex(safeArcs)
         IN  IF f # 0 /\ l # 0 /\ f # l
             THEN Append(Without(safeArcs, {f, l}, 1),
                         [start |-> safeArcs[l].start,
                          end |-> safeArcs[f].end,
                          length |-> safeArcs[l].length + safeArcs[f].length])
             ELSE safeArcs
    ELSE safeArcs

\* the wrap-around merge: the arc that starts at sample 0 and the arc that ends
\* at 2*pi become one arc, pushed last
MergeWrapAround(safe, safeArcs) ==
    IF safe[0] /\ safe[resolution - 1] /\ Len(safeArcs) > 1
    THEN LET f == FirstArcIndex(safeArcs)
             l == LastArcIndex(safeArcs)
         IN  IF f # 0 /\ l # 0 /\ f # l
             THEN Append(Without(safeArcs, {f, l}, 1),
                         [start |-> safeArcs[l].start,
                          end |-> safeArcs[f].end + TWO_PI,
                          length |-> safeArcs[l].length + safeArcs[f].length])
             ELSE safeArcs
    ELSE safeArcs

RECURSIVE SumLengths(_, _)
SumLengths(safeArcs, k) ==
    IF k > Len(safeArcs) THEN 0 ELSE safeArcs[k].length + SumLengths(safeArcs, k + 1)

\* safeArcs.reduce((sum, arc) => sum + arc.length, 0)
TotalSafeAngleLength(safeArcs) == SumLengths(safeArcs, 1)

\* safeArcs.sort((a, b) => a.start - b.start): stable insertion by start
RECURSIVE InsertArc(_, _)
InsertArc(sorted, arc) ==
    IF sorted = <<>> THEN <<arc>>
    ELSE IF sorted[Len(sorted)].start <= arc.start THEN Append(sorted, arc)
    ELSE Append(InsertArc(SubSeq(sorted, 1, Len(sorted) - 1), arc), sorted[Len(sorted)])

RECURSIVE SortArcsFrom(_, _, _)
SortArcsFrom(safeArcs, k, acc) ==
    IF k > Len(safeArcs) THEN acc ELSE SortArcsFrom(safeArcs, k + 1, InsertArc(acc, safeArcs[k]))

SortArcs(safeArcs) == SortArcsFrom(safeArcs, 1, <<>>)

----------------------------------------------------------------------------
(* useRadialMenuPositions: placing the items of one iteration *)

\* a placement at twice the radius (the diameter taken for the radius)
PositionAtDiameter(currentOrbitRadius, angle) ==
    [x |-> 2 * currentOrbitRadius * Cos(angle), y |-> 2 * currentOrbitRadius * Sin(angle),
     angle |-> angle]

\* { x: currentOrbitRadius * Math.cos(angle), y: currentOrbitRadius * Math.sin(angle), angle }
PositionAt(currentOrbitRadius, angle) ==
    [x |-> currentOrbitRadius * Cos(angle), y |-> currentOrbitRadius * Sin(angle), angle |-> angle]

\* a uniform distribution at the slot centers: item i at (i + 0.5) * (2 * Math.PI / numItems)
RECURSIVE DistributeEvenlyAtSlotCenters(_, _, _)
DistributeEvenlyAtSlotCenters(i, numItems, currentOrbitRadius) ==
    IF i >= numItems THEN <<>>
    ELSE LET angleBetweenItems == TWO_PI \div numItems
         IN  <<PositionAt(currentOrbitRadius, ((2 * i + 1) * angleBetweenItems) \div 2)>>
                 \o DistributeEvenlyAtSlotCenters(i + 1, numItems, currentOrbitRadius)

\* "Not enough safe space": item i at i * (2 * Math.PI / numItems)
RECURSIVE DistributeEvenly(_, _, _)
DistributeEvenly(i, numItems, currentOrbitRadius) ==
    IF i >= numItems THEN <<>>
    ELSE LET angleBetweenItems == TWO_PI \div numItems
         IN  <<PositionAt(currentOrbitRadius, i * angleBetweenItems)>>
                 \o DistributeEvenly(i + 1, numItems, currentOrbitRadius)

\* an arc walk without the tolerance: an arc takes a target that lies strictly
\* inside its interval of accumulated length
RECURSIVE WalkArcsStrictlyInside(_, _, _, _)
WalkArcsStrictlyInside(safeArcs, k, target, cumulative) ==
    IF k > Len(safeArcs)
    THEN [placed |-> FALSE, angle |-> 0, arc |-> 0, cumulative |-> cumulative]
    ELSE LET arc == safeArcs[k]
         IN  IF target > cumulative /\ target < cumulative + arc.length
             THEN [placed |-> TRUE,
                   angle |-> (arc.start + (target - cumulative)) % TWO_PI,
                   arc |-> k,
                   cumulative |-> cumulative]
             ELSE WalkArcsStrictlyInside(safeArcs, k + 1, target, cumulative + arc.length)

\* for (const arc of safeArcs): the first arc whose cumulative interval holds the
\* target; cumulative is tempCumulativeAngle / currentArcProcessedLength
RECURSIVE WalkArcs(_, _, _, _)
WalkArcs(safeArcs, k, target, cumulative) ==
    IF k > Len(safeArcs)
    THEN [placed |-> FALSE, angle |-> 0, arc |-> 0, cumulative |-> cumulative]
    ELSE LET arc == safeArcs[k]
         IN  IF /\ target >= cumulative - ANGLE_EPSILON
                /\ target < cumulative + arc.length + ANGLE_EPSILON
             THEN LET angleOffsetWithinArc == target - cumulative
                      clampedAngleOffset == Max(0, Min(angleOffsetWithinArc, arc.length))
                  IN  [placed |-> TRUE,
                       angle |-> (arc.start + clampedAngleOffset) % TWO_PI,
                       arc |-> k,
                       cumulative |-> cumulative]
             ELSE WalkArcs(safeArcs, k + 1, target, cumulative + arc.length)

\* the angle of an item that no arc took
FallbackAngle(safeArcs, i, numItems) ==
    IF Len(safeArcs) > 0
    THEN (safeArcs[1].start + safeArcs[1].length \div 2) % TWO_PI
    ELSE i * (TWO_PI \div numItems)

\* (i + 0.5) * anglePerItemSlot
TargetCenterAngle(i, anglePerItemSlot) == ((2 * i + 1) * anglePerItemSlot) \div 2

\* for (let i = 0; i < numItems; i++) of the proportional branch: the outcome
\* of the arc walk of each item from item i on. In revision "src" the
\* accumulated length restarts at 0 for each item (tempCumulativeAngle); in
\* revision "part" it is carried from item to item (currentArcProcessedLength).
RECURSIVE WalkItems(_, _, _, _, _, _)
WalkItems(revision, safeArcs, i, numItems, anglePerItemSlot, carried) ==
    IF i >= numItems THEN <<>>
    ELSE LET target == TargetCenterAngle(i, anglePerItemSlot)
             w == WalkArcs(safeArcs, 1, target, IF revision = "src" THEN 0 ELSE carried)
         IN  <<w>> \o WalkItems(revision, safeArcs, i + 1, numItems, anglePerItemSlot,
                                w.cumulative)

\* calculatedPositions.push(...) for the walk outcomes ws of the items from i on
RECURSIVE PushPositions(_, _, _, _, _)
PushPositions(ws, safeArcs, i, numItems, currentOrbitRadius) ==
    IF ws = <<>> THEN <<>>
    ELSE LET w == Head(ws)
             angle == IF w.placed THEN w.angle ELSE FallbackAngle(safeArcs, i, numItems)
         IN  <<PositionAt(currentOrbitRadius, angle)>>
                 \o PushPositions(Tail(ws), safeArcs, i + 1, numItems, currentOrbitRadius)

\* the placements of the proportional branch for the items from i on
DistributeInArcs(safeArcs, i, numItems, anglePerItemSlot, currentOrbitRadius, carried) ==
    PushPositions(WalkItems(variant, safeArcs, i, numItems, anglePerItemSlot, carried),
                  safeArcs, i, numItems, currentOrbitRadius)

\* the items (0-based) of the outcomes ws, the first being item i's, that no arc
\* took: those the code warns about ("Fallback placement for item i")
RECURSIVE UnplacedItems(_, _)
UnplacedItems(ws, i) ==
    IF ws = <<>> THEN <<>>
    ELSE (IF Head(ws).placed THEN <<>> ELSE <<i>>) \o UnplacedItems(Tail(ws), i + 1)

\* the fallback warnings of one iteration
FallbackWarnings(safeArcs, numItems) ==
    LET totalSafeAngleLength == TotalSafeAngleLength(safeArcs)
    IN  IF numItems > 0 /\ totalSafeAngleLength >= ANGLE_EPSILON * numItems
        THEN UnplacedItems(WalkItems(variant, SortArcs(safeArcs), 0, numItems,
                                     totalSafeAngleLength \div numItems, 0), 0)
        ELSE <<>>

\* the placements of one iteration without the uniform distribution that is
\* used when there is not enough safe space
CalculatePositionsNoFallback(safeArcs, numItems, currentOrbitRadius) ==
    LET totalSafeAngleLength == TotalSafeAngleLength(safeArcs)
    IN  IF numItems > 0 /\ totalSafeAngleLength >= ANGLE_EPSILON * numItems
        THEN DistributeInArcs(SortArcs(safeArcs), 0, numItems,
                              totalSafeAngleLength \div numItems, currentOrbitRadius, 0)
        ELSE <<>>

\* if (numItems > 0) { ... }: the placements of one iteration
CalculatePositions(safeArcs, numItems, currentOrbitRadius) ==
    LET totalSafeAngleLength == TotalSafeAngleLength(safeArcs)
    IN  IF numItems > 0
        THEN IF totalSafeAngleLength < ANGLE_EPSILON * numItems
             THEN DistributeEvenly(0, numItems, currentOrbitRadius)
             ELSE DistributeInArcs(SortArcs(safeArcs), 0, numItems,
                                   totalSafeAngleLength \div numItems, currentOrbitRadius, 0)
        ELSE <<>>

\* dx * dx + dy * dy of two placements (the main button center cancels)
DistanceSquared(p, q) == WideAdd(WideSq(p.x - q.x), WideSq(p.y - q.y))

\* itemSize * itemSize on the lattice of the squared distances. That lattice is
\* finer than the one of the lengths: props.itemSizeExcess is what the item
\* size has above its value on the length lattice, in units of 1e-7 pixel
\* (0 or 1, far below the resolution of the lengths), and adds
\* 2 * itemSize * excess to the square.
ItemSizeSquared(itemSize) ==
    WideAdd(WideSq(itemSize * COS_SCALE), <<0, (4 * itemSize * props.itemSizeExcess) \div 10>>)

\* the overlap test against the item radius instead of the item size
PairOverlapsRadius(p, q, itemSize) ==
    WideLess(DistanceSquared(p, q),
             WideMinus(WideSq((itemSize \div 2) * COS_SCALE), ANGLE_EPSILON_PX2))

\* an overlap test without the tolerance
PairOverlapsNoTolerance(p, q, itemSize) ==
    WideLess(DistanceSquared(p, q), ItemSizeSquared(itemSize))

\* distanceSquared < (itemSize * itemSize) - ANGLE_EPSILON
PairOverlaps(p, q, itemSize) ==
    WideLess(DistanceSquared(p, q), WideMinus(ItemSizeSquared(itemSize), ANGLE_EPSILON_PX2))

\* the double loop over i < j
OverlapDetected(calculatedPositions, itemSize) ==
    /\ Len(calculatedPositions) > 1
    /\ \E i \in 1 .. Len(calculatedPositions) : \E j \in i + 1 .. Len(calculatedPositions) :
            PairOverlaps(calculatedPositions[i], calculatedPositions[j], itemSize)

----------------------------------------------------------------------------
(* useRadialMenuPositions: the radius search and the layout effect *)

\* one pass of the while body at radius currentOrbitRadius
Iteration(inp, currentOrbitRadius) ==
    LET cx == inp.centerPosition.x + inp.mainButtonSize \div 2
        cy == inp.centerPosition.y + inp.mainButtonSize \div 2
        itemRadius == inp.itemSize \div 2
        safe == PotentialAngles(currentOrbitRadius, cx, cy, itemRadius, inp.viewportSize)
        extracted == ExtractArcs(safe, 0, <<>>)
        safeArcs == MergeWrapAround(safe, extracted)
        calculatedPositions == CalculatePositions(safeArcs, inp.numItems, currentOrbitRadius)
    IN  [calculatedPositions |-> calculatedPositions,
         overlapDetected |-> OverlapDetected(calculatedPositions, inp.itemSize),
         safeSamples |-> {i \in 0 .. resolution - 1 : safe[i]},
         extractedArcs |-> extracted,
         safeArcs |-> safeArcs,
         fallbackWarnings |-> FallbackWarnings(safeArcs, inp.numItems)]

\* a radius that stays as it is after a rejected iteration
GrowRadiusStuck(currentOrbitRadius, maxOrbitRadius) == Min(currentOrbitRadius, maxOrbitRadius)

\* a radius that grows by the increment without regard to the cap
GrowRadiusUncapped(currentOrbitRadius, maxOrbitRadius) ==
    currentOrbitRadius + Px(ORBIT_RADIUS_INCREMENT_PIXELS)

\* currentOrbitRadius += ORBIT_RADIUS_INCREMENT_PIXELS;
\* currentOrbitRadius = Math.min(currentOrbitRadius, maxOrbitRadius)
GrowRadius(currentOrbitRadius, maxOrbitRadius) ==
    Min(currentOrbitRadius + Px(ORBIT_RADIUS_INCREMENT_PIXELS), maxOrbitRadius)

\* a search that publishes nothing when it gives up: the placements of the last
\* iteration are dropped at the radius cap and at the iteration cap
RECURSIVE RadiusSearchDropsRejected(_, _, _)
RadiusSearchDropsRejected(inp, currentOrbitRadius, iterationCount) ==
    LET maxOrbitRadius == inp.initialOrbitRadius * MAX_ORBIT_RADIUS_FACTOR
        count == iterationCount + 1
        it == Iteration(inp, currentOrbitRadius)
        grown == GrowRadius(currentOrbitRadius, maxOrbitRadius)
        Done(exit, finalRadius, positions) ==
            [radius |-> currentOrbitRadius,
             radii |-> <<currentOrbitRadius>>,
             currentOrbitRadius |-> finalRadius,
             iterationCount |-> count,
             exit |-> exit] @@ [it EXCEPT !.calculatedPositions = positions]
    IN  IF ~it.overlapDetected THEN Done("noOverlap", currentOrbitRadius, it.calculatedPositions)
        ELSE IF currentOrbitRadius >= maxOrbitRadius
             THEN Done("maxRadius", currentOrbitRadius, <<>>)
        ELSE IF count < MAX_ITERATIONS_FOR_RADIUS_ADJUSTMENT
             THEN [RadiusSearchDropsRejected(inp, grown, count)
                      EXCEPT !.radii = <<currentOrbitRadius>> \o @]
             ELSE Done("maxIterations", grown, <<>>)

\* a search that, when it gives up at the iteration cap, publishes placements
\* on the radius incremented after the last iteration
RECURSIVE RadiusSearchPublishesGrown(_, _, _)
RadiusSearchPublishesGrown(inp, currentOrbitRadius, iterationCount) ==
    LET maxOrbitRadius == inp.initialOrbitRadius * MAX_ORBIT_RADIUS_FACTOR
        count == iterationCount + 1
        it == Iteration(inp, currentOrbitRadius)
        grown == GrowRadius(currentOrbitRadius, maxOrbitRadius)
        Done(exit, finalRadius) ==
            [radius |-> currentOrbitRadius,
             radii |-> <<currentOrbitRadius>>,
             currentOrbitRadius |-> finalRadius,
             iterationCount |-> count,
             exit |-> exit] @@ it
    IN  IF ~it.overlapDetected THEN Done("noOverlap", currentOrbitRadius)
        ELSE IF currentOrbitRadius >= maxOrbitRadius THEN Done("maxRadius", currentOrbitRadius)
        ELSE IF count < MAX_ITERATIONS_FOR_RADIUS_ADJUSTMENT
             THEN [RadiusSearchPublishesGrown(inp, grown, count)
                      EXCEPT !.radii = <<currentOrbitRadius>> \o @]
             ELSE [Done("maxIterations", grown)
                      EXCEPT !.calculatedPositions = Iteration(inp, grown).calculatedPositions]

\* while (iterationCount < MAX_ITERATIONS_FOR_RADIUS_ADJUSTMENT) { ... }
\* entered with iterationCount < MAX_ITERATIONS_FOR_RADIUS_ADJUSTMENT.
\* The result records the radius of every iteration that ran (radii), the
\* radius of the last one (radius), the variable's final value and, of the
\* last iteration, the safe samples, the arcs as extracted, the arcs after
\* the wrap-around merge and the items the code warned about.
RECURSIVE RadiusSearch(_, _, _)
RadiusSearch(inp, currentOrbitRadius, iterationCount) ==
    LET maxOrbitRadius == inp.initialOrbitRadius * MAX_ORBIT_RADIUS_FACTOR
        count == iterationCount + 1
        it == Iteration(inp, currentOrbitRadius)
        grown == GrowRadius(currentOrbitRadius, maxOrbitRadius)
        Done(exit, finalRadius) ==
            [radius |-> currentOrbitRadius,
             radii |-> <<currentOrbitRadius>>,
             currentOrbitRadius |-> finalRadius,
             iterationCount |-> count,
             exit |-> exit] @@ it
    IN  IF ~it.overlapDetected THEN Done("noOverlap", currentOrbitRadius)
        ELSE IF currentOrbitRadius >= maxOrbitRadius THEN Done("maxRadius", currentOrbitRadius)
        ELSE IF count < MAX_ITERATIONS_FOR_RADIUS_ADJUSTMENT
             THEN [RadiusSearch(inp, grown, count) EXCEPT !.radii = <<currentOrbitRadius>> \o @]
             ELSE Done("maxIterations", grown)

\* the early return of the effect: setItemPositions([])
NoSearch ==
    [calculatedPositions |-> <<>>, radius |-> 0, radii |-> <<>>, currentOrbitRadius |-> 0,
     iterationCount |-> 0, overlapDetected |-> FALSE, safeSamples |-> {},
     extractedArcs |-> <<>>, safeArcs |-> <<>>, fallbackWarnings |-> <<>>, exit |-> "none"]

\* the early return without its test of typeof window
EarlyReturnNoWindowCheck(inp) ==
    \/ ~inp.isOpen
    \/ inp.numItems = 0
    \/ inp.initialOrbitRadius <= 0

\* if (!isOpen || numItems === 0 || typeof window === 'undefined' || initialOrbitRadius <= 0)
EarlyReturn(inp) ==
    \/ ~inp.isOpen
    \/ inp.numItems = 0
    \/ ~inp.windowDefined
    \/ inp.initialOrbitRadius <= 0

\* the layout effect without its early return
RunSearchAlways(inp) == RadiusSearch(inp, inp.initialOrbitRadius, 0)

\* a layout effect whose radius variable outlives the run: a later run starts
\* from the radius the run before it ended with
RunSearchFromLastRadius(inp) ==
    IF EarlyReturn(inp) THEN NoSearch
    ELSE RadiusSearch(inp, IF search.currentOrbitRadius > 0 THEN search.currentOrbitRadius
                           ELSE inp.initialOrbitRadius, 0)

\* the body of the layout effect up to setItemPositions
RunSearch(inp) ==
    IF EarlyReturn(inp) THEN NoSearch
    ELSE RadiusSearch(inp, inp.initialOrbitRadius, 0)

\* a publication that keeps the order of computation
SortByAngleSkipped(ps) == ps

\* calculatedPositions.sort((a, b) => a.angle - b.angle): stable
RECURSIVE InsertByAngle(_, _)
InsertByAngle(sorted, p) ==
    IF sorted = <<>> THEN <<p>>
    ELSE IF sorted[Len(sorted)].angle <= p.angle THEN Append(sorted, p)
    ELSE Append(InsertByAngle(SubSeq(sorted, 1, Len(sorted) - 1), p), sorted[Len(sorted)])

RECURSIVE SortByAngleFrom(_, _, _)
SortByAngleFrom(ps, k, acc) ==
    IF k > Len(ps) THEN acc ELSE SortByAngleFrom(ps, k + 1, InsertByAngle(acc, ps[k]))

SortByAngle(ps) == SortByAngleFrom(ps, 1, <<>>)

\* the props and state the layout effect reads
LayoutInputs(open, pos, vp) ==
    [isOpen |-> open,
     windowDefined |-> windowDefined,
     centerPosition |-> pos,
     numItems |-> props.items,
     initialOrbitRadius |-> Px(props.orbitRadius),
     itemSize |-> Px(props.itemSize),
     mainButtonSize |-> Px(props.mainButtonSize),
     viewportSize |-> vp]

----------------------------------------------------------------------------
(* useDraggable *)

\* Math.max(0, Math.min(v, window.inner... - currentConstrainSize)) on both axes
ClampPosition(p, currentConstrainSize, win) ==
    [x |-> Max(0, Min(p.x, win.width - currentConstrainSize)),
     y |-> Max(0, Min(p.y, win.height - currentConstrainSize))]

\* a resize handler that keeps the position as it is
HandleResizeKeeps(prev, win) == prev

\* handleResize of useDraggable
HandleResize(prev, win) == ClampPosition(prev, Px(props.mainButtonSize), win)

\* getInitialPosition with initialPosition = the middle of the window
GetInitialPosition(win) ==
    [x |-> win.width \div 2 - Px(props.mainButtonSize) \div 2,
     y |-> win.height \div 2 - Px(props.mainButtonSize) \div 2]

\* In "src" the resize effect depends on getInitialPosition, a new function on
\* every render, so it runs handleResize() again after every render.
AfterRender(p, win) == IF variant = "src" THEN HandleResize(p, win) ELSE p

\* the threshold test on the squared distance, without the square root
BeyondThresholdNoSqrt(coords, start) ==
    LET dx == coords.x - start.x
        dy == coords.y - start.y
        threshold == Px(props.dragThreshold)
    IN  dx * dx + dy * dy > threshold

\* Math.sqrt(dx * dx + dy * dy) > dragThreshold
BeyondThreshold(coords, start) ==
    LET dx == coords.x - start.x
        dy == coords.y - start.y
        threshold == Px(props.dragThreshold)
    IN  threshold < 0 \/ dx * dx + dy * dy > threshold * threshold

\* a flag that follows the current distance instead of staying set
MovedAfterMoveNotSticky(coords) ==
    interactionStartCoords # NoCoords /\ BeyondThreshold(coords, interactionStartCoords)

\* the first half of handleInteractionMove: the sticky flag
MovedAfterMove(coords) ==
    IF interactionStartCoords # NoCoords /\ ~hasMovedBeyondThreshold
    THEN BeyondThreshold(coords, interactionStartCoords)
    ELSE hasMovedBeyondThreshold

\* the second half of handleInteractionMove: the clamped position
PositionAfterMove(coords) ==
    ClampPosition([x |-> coords.x - dragStartOffset.x, y |-> coords.y - dragStartOffset.y],
                  Px(props.mainButtonSize), innerSize)

\* the anchor's rectangle (getBoundingClientRect of the fixed-position div) holds the point
OverAnchor(coords, p) ==
    /\ p.x <= coords.x /\ coords.x < p.x + Px(props.mainButtonSize)
    /\ p.y <= coords.y /\ coords.y < p.y + Px(props.mainButtonSize)

\* the cleanup of the drag effect: it removes the two handlers of its run,
\* which are on the window when that run registered them
CleanupListeners(l, registered) ==
    IF registered THEN [move |-> l.move - 1, up |-> l.up - 1] ELSE l

\* the body of the drag effect: if (isDragging) addEventListener ... else
\* removeEventListener of handlers that were never added
RegisterListeners(l, dragging) ==
    IF dragging THEN [move |-> l.move + 1, up |-> l.up + 1] ELSE l

\* a drag effect that runs again without the cleanup of its previous run
DragEffectNoCleanup(l, changed, wasDragging, dragging) ==
    IF changed THEN RegisterListeners(l, dragging) ELSE l

\* the drag effect after a render: when one of its dependencies changed, the
\* cleanup of the previous run and then the body
DragEffect(l, changed, wasDragging, dragging) ==
    IF changed THEN RegisterListeners(CleanupListeners(l, wasDragging), dragging) ELSE l

----------------------------------------------------------------------------
(* DraggableRadialMenu: toggleMenu *)

\* toggleMenu without the test of the re-entrancy guard
toggleMenuUnguarded ==
    IF ~hasMovedBeyondThreshold
    THEN [isOpen |-> ~isOpen, isInteractingWithButton |-> TRUE, timers |-> timers + 1]
    ELSE [isOpen |-> isOpen, isInteractingWithButton |-> isInteractingWithButton,
          timers |-> timers]

\* a toggleMenu that starts its timer also when it does not toggle
toggleMenuAlwaysStartsTimer ==
    IF ~hasMovedBeyondThreshold /\ ~isInteractingWithButton
    THEN [isOpen |-> ~isOpen, isInteractingWithButton |-> TRUE, timers |-> timers + 1]
    ELSE [isOpen |-> isOpen, isInteractingWithButton |-> isInteractingWithButton,
          timers |-> timers + 1]

\* toggleMenu without the test of the moved flag
toggleMenuIgnoresMoved ==
    IF ~isInteractingWithButton
    THEN [isOpen |-> ~isOpen, isInteractingWithButton |-> TRUE, timers |-> timers + 1]
    ELSE [isOpen |-> isOpen, isInteractingWithButton |-> isInteractingWithButton,
          timers |-> timers]

\* toggleMenu, as the state it leaves
toggleMenu ==
    IF ~hasMovedBeyondThreshold /\ ~isInteractingWithButton
    THEN [isOpen |-> ~isOpen, isInteractingWithButton |-> TRUE, timers |-> timers + 1]
    ELSE [isOpen |-> isOpen, isInteractingWithButton |-> isInteractingWithButton,
          timers |-> timers]

----------------------------------------------------------------------------
(* The widget: events *)

layoutVars == <<itemPositions, search>>
dragVars == <<position, isDragging, hasMovedBeyondThreshold, dragStartOffset,
              interactionStartCoords>>
menuVars == <<isOpen, isInteractingWithButton, timers, hoveredItemId>>
envVars == <<variant, props, windowDefined, innerSize, viewportSize>>

lifeVars == <<mounted, listeners>>

vars == <<variant, props, windowDefined, innerSize, viewportSize, position, isDragging,
          hasMovedBeyondThreshold, dragStartOffset, interactionStartCoords, isOpen,
          isInteractingWithButton, timers, hoveredItemId, itemPositions, search,
          mounted, listeners, pointer, gesture, lastEvent>>

\* a layout effect that runs again only when the menu opens or closes
RelayoutOnToggleOnly(open, pos, vp) ==
    IF open = isOpen
    THEN UNCHANGED layoutVars
    ELSE /\ search' = RunSearch(LayoutInputs(open, pos, vp))
         /\ itemPositions' = SortByAngle(search'.calculatedPositions)

\* the layout effect after a render: it runs again when one of its inputs changed
Relayout(open, pos, vp) ==
    IF LayoutInputs(open, pos, vp) = LayoutInputs(isOpen, position, viewportSize)
    THEN UNCHANGED layoutVars
    ELSE /\ search' = RunSearch(LayoutInputs(open, pos, vp))
         /\ itemPositions' = SortByAngle(search'.calculatedPositions)

\* what the claims need to know of the event handled last; the fields an event
\* does not set keep these values
Event(type) ==
    [type |-> type,
     item |-> Null,            \* the item of a hover or select event
     button |-> Null,          \* event.button of a press (Null: a touch, which has none)
     requested |-> FALSE,      \* toggleMenu was called
     openBefore |-> FALSE,     \* isOpen when toggleMenu or an item's onClick was called
     guardBefore |-> FALSE,    \* isInteractingWithButton at that moment
     hoveredBefore |-> Null,   \* hoveredItemId at that moment
     reclamped |-> FALSE,      \* a resize moved the anchor
     actionCalls |-> <<>>]     \* the action callbacks the handler invoked, in order

\* history of a gesture: isOpen at the press, whether the flag was ever seen true
\* after a move, whether every move stayed strictly below the threshold
NoGesture == [openAtPress |-> FALSE, movedEver |-> FALSE, belowAlways |-> TRUE]

\* the distance to the press point is strictly below the drag threshold
StrictlyBelowThreshold(coords, start) ==
    LET dx == coords.x - start.x
        dy == coords.y - start.y
        threshold == Px(props.dragThreshold)
    IN  threshold > 0 /\ dx * dx + dy * dy < threshold * threshold

\* where the anchor is pressed, from its top-left corner, and where the pointer
\* then moves, from the press point (CSS pixels): 4.2 pixels away (below the
\* default threshold) and 12 pixels away (beyond it). The first leaves the
\* window when the anchor lies against its left edge.
PressOffsets == {[x |-> Px(1), y |-> Px(4)]}
MoveDeltas == {[x |-> Px(-3), y |-> Px(3)], [x |-> Px(12), y |-> Px(0)]}

PressPoints == {[x |-> position.x + o.x, y |-> position.y + o.y] : o \in PressOffsets}
MovePoints ==
    {[x |-> interactionStartCoords.x + d.x, y |-> interactionStartCoords.y + d.y] : d \in MoveDeltas}

WidgetViewports == {[width |-> Px(22), height |-> Px(16)], [width |-> Px(12), height |-> Px(16)]}

\* event.button of a mousedown (0: left, 2: right); a touchstart has none
Buttons == {0, 2, Null}

\* the listeners named by the dependencies of the drag effect changed
DragDepsChanged ==
    <<isDragging', dragStartOffset', interactionStartCoords', hasMovedBeyondThreshold'>>
        # <<isDragging, dragStartOffset, interactionStartCoords, hasMovedBeyondThreshold>>

WidgetProps ==
    [items : {2}, orbitRadius : {0, 10}, itemSize : {8}, itemSizeExcess : {0},
     mainButtonSize : {16}, dragThreshold : {DEFAULT_DRAG_THRESHOLD}]

\* the state after mount: the first render and its effects
Init ==
    /\ variant \in Variants
    /\ props \in WidgetProps
    /\ windowDefined = TRUE
    /\ innerSize \in WidgetViewports
    /\ viewportSize = innerSize
    /\ position = HandleResize(GetInitialPosition(innerSize), innerSize)
    /\ isDragging = FALSE
    /\ hasMovedBeyondThreshold = FALSE
    /\ dragStartOffset = [x |-> 0, y |-> 0]
    /\ interactionStartCoords = NoCoords
    /\ isOpen = FALSE
    /\ isInteractingWithButton = FALSE
    /\ timers = 0
    /\ hoveredItemId = Null
    /\ itemPositions = <<>>
    /\ search = NoSearch
    /\ mounted = TRUE
    /\ listeners = [move |-> 0, up |-> 0]
    /\ pointer = [x |-> 0, y |-> 0]
    /\ gesture = NoGesture
    /\ lastEvent = Event("mount")

\* a press that starts a drag whatever the mouse button
StartAnyButton(coords, button) ==
    /\ mounted
    /\ ~isDragging
    /\ OverAnchor(coords, position)
    /\ pointer' = coords
    /\ dragStartOffset' = [x |-> coords.x - position.x, y |-> coords.y - position.y]
    /\ interactionStartCoords' = coords
    /\ hasMovedBeyondThreshold' = FALSE
    /\ isDragging' = TRUE
    /\ position' = AfterRender(position, innerSize)
    /\ listeners' = DragEffect(listeners, DragDepsChanged, isDragging, isDragging')
    /\ gesture' = [openAtPress |-> isOpen, movedEver |-> FALSE, belowAlways |-> TRUE]
    /\ lastEvent' = [Event("start") EXCEPT !.button = button]
    /\ UNCHANGED <<envVars, menuVars, layoutVars, mounted>>

\* mousedown / touchstart on the main button: handleInteractionStart, which
\* returns at once for a mouse button other than the left one
Start(coords, button) ==
    /\ mounted
    /\ ~isDragging
    /\ OverAnchor(coords, position)
    /\ lastEvent' = [Event("start") EXCEPT !.button = button]
    /\ IF button # Null /\ button # 0
       THEN UNCHANGED <<envVars, menuVars, layoutVars, dragVars, lifeVars, pointer, gesture>>
       ELSE /\ pointer' = coords
            /\ dragStartOffset' = [x |-> coords.x - position.x, y |-> coords.y - position.y]
            /\ interactionStartCoords' = coords
            /\ hasMovedBeyondThreshold' = FALSE
            /\ isDragging' = TRUE
            /\ position' = AfterRender(position, innerSize)
            /\ listeners' = DragEffect(listeners, DragDepsChanged, isDragging, isDragging')
            /\ gesture' = [openAtPress |-> isOpen, movedEver |-> FALSE, belowAlways |-> TRUE]
            /\ UNCHANGED <<envVars, menuVars, layoutVars, mounted>>

\* mousemove / touchmove on the window: handleInteractionMove, registered while dragging
Move(coords) ==
    /\ mounted
    /\ isDragging
    /\ pointer' = coords
    /\ hasMovedBeyondThreshold' = MovedAfterMove(coords)
    /\ position' = AfterRender(PositionAfterMove(coords), innerSize)
    /\ Relayout(isOpen, position', viewportSize)
    /\ gesture' = [gesture EXCEPT !.movedEver = @ \/ hasMovedBeyondThreshold',
                                  !.belowAlways = @ /\ StrictlyBelowThreshold(coords, interactionStartCoords)]
    /\ lastEvent' = Event("move")
    /\ UNCHANGED <<envVars, menuVars, isDragging, dragStartOffset, interactionStartCoords, mounted>>
    /\ listeners' = DragEffect(listeners, DragDepsChanged, isDragging, isDragging')

\* where the pointer moves while no drag is in progress, from the anchor's corner
StrayPoints == {[x |-> position.x + d.x, y |-> position.y + d.y] : d \in MoveDeltas}

\* a move handler that is on the window at all times and has no early return
MoveHandledAlways == TRUE

\* a mousemove / touchmove on the window is processed: a handleInteractionMove
\* is registered (the drag effect adds it only if isDragging) and it passes
\* its early return, if (!isDraggingRef.current || !ref.current) return
MoveHandled == listeners.move > 0 /\ isDragging /\ mounted

\* mousemove / touchmove on the window while no drag is in progress
StrayMove(coords) ==
    /\ mounted
    /\ ~isDragging
    /\ lastEvent' = Event("strayMove")
    /\ IF MoveHandled
       THEN /\ pointer' = coords
            /\ hasMovedBeyondThreshold' = MovedAfterMove(coords)
            /\ position' = AfterRender(PositionAfterMove(coords), innerSize)
            /\ Relayout(isOpen, position', viewportSize)
            /\ UNCHANGED <<envVars, menuVars, isDragging, dragStartOffset,
                           interactionStartCoords, gesture, mounted>>
            /\ listeners' = DragEffect(listeners, DragDepsChanged, isDragging, isDragging')
       ELSE UNCHANGED <<envVars, dragVars, menuVars, layoutVars, lifeVars, pointer, gesture>>

\* a release that also clears the moved flag
EndResetsFlag ==
    /\ mounted
    /\ isDragging
    /\ LET over == OverAnchor(pointer, position)
           t == IF over THEN toggleMenu
                ELSE [isOpen |-> isOpen, isInteractingWithButton |-> isInteractingWithButton,
                      timers |-> timers]
       IN  /\ isOpen' = t.isOpen
           /\ isInteractingWithButton' = t.isInteractingWithButton
           /\ timers' = t.timers
           /\ lastEvent' = [Event("end") EXCEPT !.requested = over, !.openBefore = isOpen,
                                                !.guardBefore = isInteractingWithButton]
    /\ isDragging' = FALSE
    /\ hasMovedBeyondThreshold' = FALSE
    /\ position' = AfterRender(position, innerSize)
    /\ Relayout(isOpen', position', viewportSize)
    /\ UNCHANGED <<envVars, hoveredItemId, dragStartOffset, interactionStartCoords,
                   pointer, gesture, mounted>>
    /\ listeners' = DragEffect(listeners, DragDepsChanged, isDragging, isDragging')

\* mouseup / touchend: handleInteractionEnd on the window and, when the pointer
\* is released over the main button, toggleMenu (onClick in "src", onMouseUp /
\* onTouchEnd in "part")
End ==
    /\ mounted
    /\ isDragging
    /\ LET over == OverAnchor(pointer, position)
           t == IF over THEN toggleMenu
                ELSE [isOpen |-> isOpen, isInteractingWithButton |-> isInteractingWithButton,
                      timers |-> timers]
       IN  /\ isOpen' = t.isOpen
           /\ isInteractingWithButton' = t.isInteractingWithButton
           /\ timers' = t.timers
           /\ lastEvent' = [Event("end") EXCEPT !.requested = over, !.openBefore = isOpen,
                                                !.guardBefore = isInteractingWithButton]
    /\ isDragging' = FALSE
    /\ position' = AfterRender(position, innerSize)
    /\ Relayout(isOpen', position', viewportSize)
    /\ UNCHANGED <<envVars, hoveredItemId, hasMovedBeyondThreshold, dragStartOffset,
                   interactionStartCoords, pointer, gesture, mounted>>
    /\ listeners' = DragEffect(listeners, DragDepsChanged, isDragging, isDragging')

\* a timer callback that leaves the guard set
TimerFiresKeepsGuard ==
    /\ timers > 0
    /\ timers' = timers - 1
    /\ position' = (IF mounted THEN AfterRender(position, innerSize) ELSE position)
    /\ lastEvent' = Event("timer")
    /\ UNCHANGED <<envVars, isDragging, hasMovedBeyondThreshold, dragStartOffset,
                   interactionStartCoords, isOpen, isInteractingWithButton, hoveredItemId,
                   layoutVars, lifeVars, pointer, gesture>>

\* the setTimeout callback of toggleMenu; the timer is not cancelled at
\* unmount, and a state update of an unmounted component does nothing
TimerFires ==
    /\ timers > 0
    /\ timers' = timers - 1
    /\ isInteractingWithButton' = (IF mounted THEN FALSE ELSE isInteractingWithButton)
    /\ position' = (IF mounted THEN AfterRender(position, innerSize) ELSE position)
    /\ lastEvent' = Event("timer")
    /\ UNCHANGED <<envVars, isDragging, hasMovedBeyondThreshold, dragStartOffset,
                   interactionStartCoords, isOpen, hoveredItemId, layoutVars, lifeVars,
                   pointer, gesture>>

\* item hotspots that are rendered and take pointer input at all times
HotspotAlways(i) == TRUE

\* the item hotspots: rendered for the items that have a placement, and
\* reached by the pointer only while the menu is open (pointerEvents)
Hotspot(i) == isOpen /\ i + 1 <= Len(itemPositions)

\* onMouseEnter / onMouseLeave of an item
MouseEnter(i) ==
    /\ mounted
    /\ Hotspot(i)
    /\ hoveredItemId # i
    /\ hoveredItemId' = (IF isOpen THEN i ELSE hoveredItemId)
    /\ position' = AfterRender(position, innerSize)
    /\ lastEvent' = [Event("enter") EXCEPT !.item = i]
    /\ UNCHANGED <<envVars, isDragging, hasMovedBeyondThreshold, dragStartOffset,
                   interactionStartCoords, isOpen, isInteractingWithButton, timers,
                   layoutVars, lifeVars, pointer, gesture>>

MouseLeave(i) ==
    /\ mounted
    /\ Hotspot(i)
    /\ hoveredItemId = i
    /\ hoveredItemId' = (IF isOpen THEN Null ELSE hoveredItemId)
    /\ position' = AfterRender(position, innerSize)
    /\ lastEvent' = [Event("leave") EXCEPT !.item = i]
    /\ UNCHANGED <<envVars, isDragging, hasMovedBeyondThreshold, dragStartOffset,
                   interactionStartCoords, isOpen, isInteractingWithButton, timers,
                   layoutVars, lifeVars, pointer, gesture>>

\* an item click that leaves the hovered-item marker as it is
SelectEffectsKeepsHover(i) == [actionCalls |-> <<i>>, isOpen |-> FALSE, hoveredItemId |-> hoveredItemId]

\* onClick of an item: item.action?.(); setIsOpen(false); setHoveredItemId(null)
SelectEffects(i) == [actionCalls |-> <<i>>, isOpen |-> FALSE, hoveredItemId |-> Null]

Select(i) ==
    /\ mounted
    /\ Hotspot(i)
    /\ ~isDragging
    /\ LET e == SelectEffects(i)
       IN  /\ isOpen' = e.isOpen
           /\ hoveredItemId' = e.hoveredItemId
           /\ lastEvent' = [Event("select") EXCEPT !.item = i, !.actionCalls = e.actionCalls,
                                                   !.openBefore = isOpen,
                                                   !.guardBefore = isInteractingWithButton,
                                                   !.hoveredBefore = hoveredItemId]
    /\ position' = AfterRender(position, innerSize)
    /\ Relayout(isOpen', position', viewportSize)
    /\ UNCHANGED <<envVars, isDragging, hasMovedBeyondThreshold, dragStartOffset,
                   interactionStartCoords, isInteractingWithButton, timers, lifeVars,
                   pointer, gesture>>

\* resize of the window: handleResize of useDraggable and of useRadialMenuPositions
Resize(win) ==
    /\ mounted
    /\ win # innerSize
    /\ innerSize' = win
    /\ viewportSize' = win
    /\ position' = AfterRender(HandleResize(position, win), win)
    /\ Relayout(isOpen, position', viewportSize')
    /\ lastEvent' = [Event("resize") EXCEPT !.reclamped = (position' # position)]
    /\ UNCHANGED <<variant, props, windowDefined, isDragging, hasMovedBeyondThreshold,
                   dragStartOffset, interactionStartCoords, menuVars, lifeVars, pointer,
                   gesture>>

\* unmount: the cleanup of every effect; no handler of the component runs afterwards
Unmount ==
    /\ mounted
    /\ mounted' = FALSE
    /\ listeners' = CleanupListeners(listeners, isDragging)
    /\ lastEvent' = Event("unmount")
    /\ UNCHANGED <<envVars, dragVars, menuVars, layoutVars, pointer, gesture>>

Next ==
    \/ \E coords \in PressPoints, button \in Buttons : Start(coords, button)
    \/ \E coords \in MovePoints : Move(coords)
    \/ \E coords \in StrayPoints : StrayMove(coords)
    \/ End
    \/ TimerFires
    \/ \E i \in 0 .. props.items - 1 : MouseEnter(i)
    \/ \E i \in 0 .. props.items - 1 : MouseLeave(i)
    \/ \E i \in 0 .. props.items - 1 : Select(i)
    \/ \E win \in WidgetViewports : Resize(win)
    \/ Unmount

Spec == Init /\ [][Next]_vars

\* the widget with its timers: a callback given to setTimeout runs once its
\* delay (CLICK_TIMEOUT_DURATION) has passed, whatever events arrive meanwhile
FairSpec == Spec /\ WF_vars(TimerFires)

----------------------------------------------------------------------------
(* The layout engine on its own: inputs drawn from bounded sets *)

MaxItems == 3

LayoutProps ==
    [items : 0 .. MaxItems, orbitRadius : {-5, 0, 10, 12, 30, 50}, itemSize : {8, 40},
     itemSizeExcess : {0}, mainButtonSize : {16}, dragThreshold : {DEFAULT_DRAG_THRESHOLD}]
    \cup
    [items : 0 .. MaxItems, orbitRadius : {10}, itemSize : {40},
     itemSizeExcess : {1}, mainButtonSize : {16}, dragThreshold : {DEFAULT_DRAG_THRESHOLD}]

LayoutViewports ==
    {[width |-> 0, height |-> 0], [width |-> Px(200), height |-> Px(120)],
     [width |-> Px(120), height |-> Px(120)]}

LayoutAnchors ==
    {[x |-> Px(0), y |-> Px(0)], [x |-> Px(0), y |-> Px(52)], [x |-> Px(92), y |-> Px(52)],
     [x |-> Px(92), y |-> Px(104)], [x |-> Px(52), y |-> Px(52)]}

LayoutInit ==
    /\ variant \in Variants
    /\ props \in LayoutProps
    /\ windowDefined \in BOOLEAN
    /\ innerSize \in LayoutViewports
    /\ viewportSize = (IF windowDefined THEN innerSize ELSE [width |-> 0, height |-> 0])
    /\ position \in LayoutAnchors
    /\ isOpen \in BOOLEAN
    /\ isDragging = FALSE
    /\ hasMovedBeyondThreshold = FALSE
    /\ dragStartOffset = [x |-> 0, y |-> 0]
    /\ interactionStartCoords = NoCoords
    /\ isInteractingWithButton = FALSE
    /\ timers = 0
    /\ hoveredItemId = Null
    /\ itemPositions = <<>>
    /\ search = [NoSearch EXCEPT !.exit = "pending"]
    /\ mounted = TRUE
    /\ listeners = [move |-> 0, up |-> 0]
    /\ pointer = [x |-> 0, y |-> 0]
    /\ gesture = NoGesture
    /\ lastEvent = Event("mount")

\* the layout effect, run once on the inputs drawn
LayoutEffect ==
    /\ search.exit = "pending"
    /\ search' = RunSearch(LayoutInputs(isOpen, position, viewportSize))
    /\ itemPositions' = SortByAngle(search'.calculatedPositions)
    /\ lastEvent' = Event("layout")
    /\ UNCHANGED <<envVars, dragVars, menuVars, lifeVars, pointer, gesture>>

\* the layout effect run a second time on the same inputs, after the first run
\* has published its result
LayoutEffectAgain ==
    /\ lastEvent.type = "layout"
    /\ search' = RunSearch(LayoutInputs(isOpen, position, viewportSize))
    /\ itemPositions' = SortByAngle(search'.calculatedPositions)
    /\ lastEvent' = Event("relayout")
    /\ UNCHANGED <<envVars, dragVars, menuVars, lifeVars, pointer, gesture>>

LayoutNext == LayoutEffect \/ LayoutEffectAgain

LayoutSpec == LayoutInit /\ [][LayoutNext]_vars

----------------------------------------------------------------------------
(* Properties of the layout engine (LayoutSpec) *)

\* the layout effect has run on the inputs drawn
LayoutDone == search.exit # "pending"

\* the search ran (no early return)
Searched == search.exit \in {"noOverlap", "maxRadius", "maxIterations"}

\* C1: when the menu is open, there are items, the base radius is positive and
\* a window exists, the layout publishes exactly as many placements as there
\* are items, whichever way the search ends.
PlacementCountIsItemCount ==
    (LayoutDone /\ isOpen /\ props.items > 0 /\ props.orbitRadius > 0 /\ windowDefined)
        => (Searched /\ Len(itemPositions) = props.items)

\* a search that ended at the iteration cap published one placement per item
PlacementCountAtIterationCap ==
    /\ search.exit = "maxIterations"
    /\ props.items >= 2
    /\ Len(itemPositions) = props.items

\* squared center distance of the published placements i and j
PublishedDistanceSquared(i, j) == DistanceSquared(itemPositions[i], itemPositions[j])

AllSamplesSafe ==
    \A i \in 0 .. resolution - 1 :
        isSafeAngle(i * angleStep, search.radius,
                    position.x + Px(props.mainButtonSize) \div 2,
                    position.y + Px(props.mainButtonSize) \div 2,
                    Px(props.itemSize) \div 2, viewportSize)

\* the absolute center of a placement lies in the viewport inset by half the item size
InsideInsetViewport(p) ==
    LET centerX == (position.x + Px(props.mainButtonSize) \div 2) * COS_SCALE + p.x
        centerY == (position.y + Px(props.mainButtonSize) \div 2) * COS_SCALE + p.y
        inset == (Px(props.itemSize) \div 2) * COS_SCALE
    IN  /\ inset <= centerX /\ centerX <= viewportSize.width * COS_SCALE - inset
        /\ inset <= centerY /\ centerY <= viewportSize.height * COS_SCALE - inset

\* C6: when every sampled angle is safe at the accepted radius, the absolute
\* center of every published placement lies within the viewport inset by half
\* the item size on all four sides.
PlacementsInsideInsetViewport ==
    (Searched /\ AllSamplesSafe)
        => \A k \in 1 .. Len(itemPositions) : InsideInsetViewport(itemPositions[k])

\* a full orbit with several items placed on it
FullOrbitPlaced ==
    /\ Searched
    /\ AllSamplesSafe
    /\ Len(itemPositions) >= 2
    /\ \A k \in 1 .. Len(itemPositions) : InsideInsetViewport(itemPositions[k])

\* C7: the published list is empty when the menu is closed, when there are no
\* items, or when the base radius is not positive.
EmptyWhenClosedOrNoItemsOrNoRadius ==
    (LayoutDone /\ (~isOpen \/ props.items = 0 \/ props.orbitRadius <= 0))
        => itemPositions = <<>>

\* a closed menu whose other inputs would give a layout, laid out empty
EmptyForClosedMenu ==
    /\ LayoutDone
    /\ ~isOpen /\ props.items > 0 /\ props.orbitRadius > 0
    /\ windowDefined /\ viewportSize.width > 0
    /\ itemPositions = <<>>

\* C8: without a window the viewport size stays 0 x 0 and the published list
\* is empty, even for an open menu with items and a positive base radius.
EmptyWithoutViewport ==
    (LayoutDone /\ ~windowDefined)
        => (viewportSize = [width |-> 0, height |-> 0] /\ itemPositions = <<>>)

\* an open menu with items and a positive radius, laid out without a window
OpenMenuWithoutViewport ==
    /\ LayoutDone
    /\ ~windowDefined
    /\ isOpen /\ props.items > 0 /\ props.orbitRadius > 0
    /\ itemPositions = <<>>

\* C13: the radius search runs at least one and at most
\* MAX_ITERATIONS_FOR_RADIUS_ADJUSTMENT iterations: 10 in the current
\* revision, 15 in the earlier one.
IterationsBounded ==
    Searched => /\ 1 <= search.iterationCount
                /\ search.iterationCount <= (IF variant = "src" THEN 10 ELSE 15)
                /\ Len(search.radii) = search.iterationCount

\* a search of the earlier revision that used all of its fifteen iterations
AllIterationsUsed ==
    /\ variant = "part"
    /\ search.exit = "maxIterations"
    /\ search.iterationCount = 15

\* C14: the radius of an iteration that follows a rejected one is strictly
\* larger than the rejected iteration's radius and not larger than the cap.
RadiusGrowsStrictly ==
    Searched =>
        \A k \in 1 .. Len(search.radii) - 1 :
            /\ search.radii[k] < search.radii[k + 1]
            /\ search.radii[k + 1] <= Px(props.orbitRadius) * MAX_ORBIT_RADIUS_FACTOR

\* a search whose last growth step was cut short by the cap
GrowthCutByCap ==
    /\ Searched
    /\ \E k \in 1 .. Len(search.radii) - 1 :
            /\ search.radii[k] < search.radii[k + 1]
            /\ search.radii[k + 1] = Px(props.orbitRadius) * MAX_ORBIT_RADIUS_FACTOR
            /\ search.radii[k + 1] - search.radii[k] < Px(ORBIT_RADIUS_INCREMENT_PIXELS)

\* C15: every iteration uses a radius between the base radius and the base
\* radius times the factor: 3 in the current revision, 4 in the earlier one.
RadiusWithinBaseAndCap ==
    Searched =>
        \A k \in 1 .. Len(search.radii) :
            /\ Px(props.orbitRadius) <= search.radii[k]
            /\ search.radii[k] <= Px(props.orbitRadius) * (IF variant = "src" THEN 3 ELSE 4)

\* a search that started at the base radius and ended at the cap
SearchedFromBaseToCap ==
    /\ search.exit = "maxRadius"
    /\ Len(search.radii) > 1
    /\ search.radii[1] = Px(props.orbitRadius)
    /\ search.radius = Px(props.orbitRadius) * (IF variant = "src" THEN 3 ELSE 4)

\* number of times p occurs in the sequence ps
Occurrences(ps, p) == Cardinality({k \in 1 .. Len(ps) : ps[k] = p})

\* C19: the published sequence is sorted by non-decreasing angle and is a
\* permutation of the placements computed in the accepted iteration.
PublishedSortedPermutation ==
    Searched =>
        /\ \A k \in 1 .. Len(itemPositions) - 1 :
                itemPositions[k].angle <= itemPositions[k + 1].angle
        /\ Len(itemPositions) = Len(search.calculatedPositions)
        /\ \A k \in 1 .. Len(itemPositions) :
                Occurrences(itemPositions, itemPositions[k])
                    = Occurrences(search.calculatedPositions, itemPositions[k])

\* a result whose placements were computed in another order than by angle
PublishedReordered ==
    /\ Searched
    /\ itemPositions # search.calculatedPositions
    /\ \A k \in 1 .. Len(itemPositions) - 1 :
            itemPositions[k].angle <= itemPositions[k + 1].angle

InsideArc(a, arc) == \E turn \in {0, TWO_PI} : arc.start <= a + turn /\ a + turn < arc.end

\* the sample index of an angle that falls on a sample, Null otherwise
SampleOf(a) == IF a % angleStep = 0 THEN (a \div angleStep) % resolution ELSE Null

\* C21: when the last iteration found a safe arc, every published angle a
\* satisfies start <= a < end (modulo 2*pi) for one of its safe arcs, and so
\* never is a sample that was found unsafe.
PublishedInsideSafeArcs ==
    (Searched /\ search.safeArcs # <<>>)
        => \A k \in 1 .. Len(itemPositions) :
              /\ \E j \in 1 .. Len(search.safeArcs) :
                    InsideArc(itemPositions[k].angle, search.safeArcs[j])
              /\ SampleOf(itemPositions[k].angle) = Null
                    \/ SampleOf(itemPositions[k].angle) \in search.safeSamples

\* the last iteration took the proportional branch
ProportionalBranch ==
    /\ Searched
    /\ TotalSafeAngleLength(search.safeArcs) >= ANGLE_EPSILON * props.items

\* the summed length of the arcs of the last iteration that start before the arc
LengthBefore(arc) ==
    SumLengths(SelectSeq(search.safeArcs, LAMBDA other : other.start < arc.start), 1)

\* (i + 0.5) * totalSafeLength / itemCount
VirtualOffset(i) ==
    ((2 * i + 1) * TotalSafeAngleLength(search.safeArcs)) \div (2 * props.items)

\* the arc's interval of accumulated length holds item i's offset and the
\* angle a is the offset mapped back into the arc
MappedIntoArc(i, a, arc) ==
    /\ LengthBefore(arc) <= VirtualOffset(i)
    /\ VirtualOffset(i) <= LengthBefore(arc) + arc.length
    /\ a = (arc.start + (VirtualOffset(i) - LengthBefore(arc))) % TWO_PI

\* C22: in the proportional branch item i is placed at the angle
\* (arc.start + (offset_i - length of the arcs before arc)) mod 2*pi, for the
\* arc whose interval of accumulated length, in ascending order of start
\* angle, holds offset_i = (i + 0.5) * totalSafeLength / itemCount.
ProportionalAngles ==
    ProportionalBranch
        => \A i \in 0 .. props.items - 1 :
              \E j \in 1 .. Len(search.safeArcs) :
                  MappedIntoArc(i, search.calculatedPositions[i + 1].angle, search.safeArcs[j])

\* C23: in the proportional branch the arc walk finds an arc for every item:
\* the fallback placement is never taken.
FallbackNeverTaken == ProportionalBranch => search.fallbackWarnings = <<>>

\* the walk of the earlier revision, its accumulated length carried past the
\* arcs an earlier item skipped, still found an arc for each of three items
CarriedWalkPlacedAll ==
    /\ ProportionalBranch
    /\ variant = "part"
    /\ props.items = 3
    /\ Len(search.safeArcs) >= 3
    /\ search.fallbackWarnings = <<>>
    /\ \E i \in 1 .. 3 : \A j \in 1 .. Len(search.safeArcs) :
            ~MappedIntoArc(i - 1, search.calculatedPositions[i].angle, search.safeArcs[j])

\* the angles at which the arc walk of a revision places the items on the arcs
\* of the last iteration
RECURSIVE Angles(_)
Angles(ps) == IF ps = <<>> THEN <<>> ELSE <<Head(ps).angle>> \o Angles(Tail(ps))

WalkAngles(revision) ==
    LET sorted == SortArcs(search.safeArcs)
        anglePerItemSlot == TotalSafeAngleLength(search.safeArcs) \div props.items
    IN  Angles(PushPositions(WalkItems(revision, sorted, 0, props.items, anglePerItemSlot, 0),
                             sorted, 0, props.items, search.radius))

\* C24: on the same safe arcs the arc walk of the earlier revision (length
\* carried across the items) places every item at the angle at which the arc
\* walk of the current revision (length restarted for each item) places it.
WalksAgree == ProportionalBranch => WalkAngles("part") = WalkAngles("src")

\* the first sample of each maximal run of consecutive safe samples
RunStarts ==
    {i \in search.safeSamples : i = 0 \/ i - 1 \notin search.safeSamples}

\* the first unsafe sample after sample i, the sample past the last one counting as unsafe
RunEnd(i) ==
    CHOOSE j \in i + 1 .. resolution :
        /\ j = resolution \/ j \notin search.safeSamples
        /\ \A m \in i + 1 .. j - 1 : m \in search.safeSamples

\* the arc of the run that starts at sample i
RunArc(i) ==
    [start |-> i * angleStep, end |-> RunEnd(i) * angleStep,
     length |-> RunEnd(i) * angleStep - i * angleStep]

\* the elements of a sequence
Range(seq) == {seq[k] : k \in 1 .. Len(seq)}

\* C25: the arcs extracted are exactly the maximal runs of consecutive safe
\* samples, each once: an arc starts at its run's first sample, ends at the
\* first unsafe sample after the run (2*pi for a run that reaches the last
\* sample) and has length end - start; distinct arcs are disjoint.
ExtractedArcsAreMaximalRuns ==
    Searched
        => /\ Range(search.extractedArcs) = {RunArc(i) : i \in RunStarts}
           /\ Len(search.extractedArcs) = Cardinality(RunStarts)
           /\ \A j, k \in 1 .. Len(search.extractedArcs) :
                 j < k => search.extractedArcs[j].end < search.extractedArcs[k].start

\* several runs extracted, one of them reaching the last sample
TrailingRunExtracted ==
    /\ Searched
    /\ Len(search.extractedArcs) >= 3
    /\ resolution - 1 \in search.safeSamples
    /\ search.extractedArcs[Len(search.extractedArcs)].end = TWO_PI
    /\ search.extractedArcs[1].start = 0

\* the arc that two arcs on either side of angle 0 merge into
CombinedArc(firstArc, lastArc) ==
    [start |-> lastArc.start, end |-> firstArc.end + TWO_PI,
     length |-> lastArc.length + firstArc.length]

\* C26: when sample 0 and the last sample are safe and lie in distinct arcs,
\* the arc of sample 0 and the arc of the last sample are replaced by one arc
\* from the last arc's start to the first arc's end + 2*pi, of their summed
\* length, and the other arcs stay; when every sample is safe there is the
\* single arc of length 2*pi; otherwise nothing is merged.
WrapAroundMerged ==
    Searched
        => LET ex == search.extractedArcs
               n == Len(ex)
           IN  IF search.safeSamples = 0 .. resolution - 1
               THEN search.safeArcs = <<[start |-> 0, end |-> TWO_PI, length |-> TWO_PI]>>
               ELSE IF 0 \in search.safeSamples /\ resolution - 1 \in search.safeSamples
               THEN /\ Len(search.safeArcs) = n - 1
                    /\ Range(search.safeArcs)
                          = (Range(ex) \ {ex[1], ex[n]}) \cup {CombinedArc(ex[1], ex[n])}
               ELSE search.safeArcs = ex

\* a wrap-around merge that left another arc as it was
MergedBesideAnotherArc ==
    /\ Searched
    /\ Len(search.extractedArcs) >= 3
    /\ 0 \in search.safeSamples /\ resolution - 1 \in search.safeSamples
    /\ Len(search.safeArcs) = Len(search.extractedArcs) - 1
    /\ search.extractedArcs[2] \in Range(search.safeArcs)
    /\ \E arc \in Range(search.safeArcs) : arc.end > TWO_PI

\* the last iteration found less safe length than itemCount times the epsilon
UniformBranch ==
    /\ Searched
    /\ TotalSafeAngleLength(search.safeArcs) < ANGLE_EPSILON * props.items

\* some pair of the placements ps has squared distance below itemSize squared
\* minus the tolerance of 1e-5
PairTooClose(ps) ==
    \E i \in 1 .. Len(ps) : \E j \in i + 1 .. Len(ps) :
        WideLess(DistanceSquared(ps[i], ps[j]),
                 WideMinus(ItemSizeSquared(Px(props.itemSize)), ANGLE_EPSILON_PX2))

\* some pair of the placements computed last is closer than the overlap test allows
ComputedPairTooClose == PairTooClose(search.calculatedPositions)

\* the placements computed at the k-th radius the search tried
PlacementsAtRadius(k) ==
    Iteration(LayoutInputs(isOpen, position, viewportSize), search.radii[k]).calculatedPositions

\* C27: without usable safe length item i is placed at the angle
\* i * 2*pi / itemCount on the current radius, whatever the samples' safety;
\* the overlap check still decides on these placements and a rejected radius
\* still grows: the search stops on them only if they are free of overlap,
\* the radius is at its cap or the iterations are used up.
UniformWhenNoSafeLength ==
    UniformBranch
        => /\ Len(search.calculatedPositions) = props.items
           /\ \A i \in 0 .. props.items - 1 :
                 LET a == (i * TWO_PI) \div props.items
                 IN  search.calculatedPositions[i + 1]
                        = [x |-> search.radius * Cos(a), y |-> search.radius * Sin(a), angle |-> a]
           /\ search.overlapDetected = ComputedPairTooClose
           /\ (search.exit = "noOverlap") = ~ComputedPairTooClose
           /\ ComputedPairTooClose
                 => \/ search.radius = Px(props.orbitRadius) * MAX_ORBIT_RADIUS_FACTOR
                    \/ search.iterationCount = MAX_ITERATIONS_FOR_RADIUS_ADJUSTMENT

\* three items spread evenly without a safe sample, accepted after the radius grew
UniformAcceptedAfterGrowth ==
    /\ UniformBranch
    /\ search.safeSamples = {}
    /\ props.items = 3
    /\ search.iterationCount > 1
    /\ search.radius > Px(props.orbitRadius)
    /\ search.exit = "noOverlap"
    /\ itemPositions[2].angle = TWO_PI \div 3

\* squared distance of the placements i and j computed last
ComputedDistanceSquared(i, j) ==
    DistanceSquared(search.calculatedPositions[i], search.calculatedPositions[j])

OnRadius(p, radius) == p.x = radius * Cos(p.angle) /\ p.y = radius * Sin(p.angle)

\* C29: when every radius tried was rejected for overlap, the layout still
\* publishes one placement per item: those computed in the last iteration
\* that ran, all on the radius of that iteration; the search has ended with
\* the radius at its cap or with the iteration count at its cap.
FullSetWhenEveryRadiusOverlaps ==
    (Searched /\ search.overlapDetected)
        => /\ Len(itemPositions) = props.items
           /\ \A p \in Range(search.calculatedPositions) :
                 Occurrences(itemPositions, p) = Occurrences(search.calculatedPositions, p)
           /\ search.radius = search.radii[Len(search.radii)]
           /\ \A k \in 1 .. Len(itemPositions) : OnRadius(itemPositions[k], search.radius)
           /\ \/ search.radius = Px(props.orbitRadius) * MAX_ORBIT_RADIUS_FACTOR
              \/ search.iterationCount = MAX_ITERATIONS_FOR_RADIUS_ADJUSTMENT
           /\ \A k \in 1 .. Len(search.radii) : PairTooClose(PlacementsAtRadius(k))

\* overlapping placements published from the radius cap, reached before the iteration cap
OverlappingSetAtRadiusCap ==
    /\ Searched
    /\ search.overlapDetected
    /\ search.exit = "maxRadius"
    /\ search.iterationCount > 1
    /\ search.iterationCount < MAX_ITERATIONS_FOR_RADIUS_ADJUSTMENT
    /\ props.items = 3
    /\ Len(itemPositions) = 3
    /\ PairTooClose(itemPositions)

\* C30: the placement at index i of the published list, the one rendered for
\* input item i, is the placement computed for item i's slot.
PublishedIndexIsSlotIndex ==
    Searched
        => \A i \in 1 .. Len(itemPositions) : itemPositions[i] = search.calculatedPositions[i]

----------------------------------------------------------------------------
(* Properties of the widget (Spec) *)

\* C3: a gesture during which the flag was set ends without a toggle, even
\* when the pointer came back to the press point: isOpen after the release
\* (and its click) is isOpen at the press.
DragDoesNotToggle ==
    (lastEvent.type = "end" /\ gesture.movedEver) => isOpen = gesture.openAtPress

\* a release over the anchor, with no guard active, of a gesture that went
\* beyond the threshold and came back to within it
ReleasedAfterDragAndReturn ==
    /\ lastEvent.type = "end"
    /\ gesture.movedEver
    /\ lastEvent.requested /\ ~lastEvent.guardBefore
    /\ StrictlyBelowThreshold(pointer, interactionStartCoords)
    /\ isOpen = gesture.openAtPress

\* C4 as stated, read for the releases that land on the anchor: a gesture
\* whose moves all stay strictly below the threshold leaves the flag false and
\* flips the menu.
ClickAlwaysToggles ==
    (lastEvent.type = "end" /\ gesture.belowAlways /\ lastEvent.requested)
        => (~hasMovedBeyondThreshold /\ isOpen # gesture.openAtPress)

\* C4, amended: such a gesture leaves the flag false, and it flips the menu
\* exactly when the release lands on the anchor while the re-entrancy guard is
\* not active; otherwise the menu stays as it was.
ClickTogglesUnlessGuardedOrMissed ==
    (lastEvent.type = "end" /\ gesture.belowAlways)
        => /\ ~hasMovedBeyondThreshold
           /\ (isOpen # gesture.openAtPress) <=> (lastEvent.requested /\ ~lastEvent.guardBefore)

\* a gesture with a move below the threshold that flipped the menu
ClickWithSmallMoveToggled ==
    /\ lastEvent.type = "end"
    /\ gesture.belowAlways
    /\ pointer # interactionStartCoords
    /\ ~hasMovedBeyondThreshold
    /\ isOpen # gesture.openAtPress

\* C5 as stated: the anchor lies fully inside the window after every event.
AnchorInsideViewport ==
    /\ 0 <= position.x /\ position.x <= innerSize.width - Px(props.mainButtonSize)
    /\ 0 <= position.y /\ position.y <= innerSize.height - Px(props.mainButtonSize)

\* C5, amended: after every event, a resize included, each coordinate of the
\* anchor lies between 0 and the larger of 0 and (window size - element size):
\* in a window smaller than the element the anchor sits at 0.
AnchorClamped ==
    /\ 0 <= position.x
    /\ position.x <= Max(0, innerSize.width - Px(props.mainButtonSize))
    /\ 0 <= position.y
    /\ position.y <= Max(0, innerSize.height - Px(props.mainButtonSize))

\* a resize that moved the anchor into the new bounds by itself
ResizeReclamped ==
    /\ lastEvent.type = "resize"
    /\ lastEvent.reclamped
    /\ AnchorClamped

\* C9: a toggle request that finds the re-entrancy guard active leaves the
\* menu as it was.
GuardedToggleIgnored ==
    (lastEvent.type = "end" /\ lastEvent.requested /\ lastEvent.guardBefore)
        => isOpen = lastEvent.openBefore

\* a second click, clean of any drag, released while the guard of the first
\* is still active
SecondClickWhileGuarded ==
    /\ lastEvent.type = "end"
    /\ lastEvent.requested /\ lastEvent.guardBefore
    /\ ~hasMovedBeyondThreshold
    /\ isOpen = lastEvent.openBefore

\* C10: selecting an item calls that item's action once, closes the menu and
\* clears the hovered-item marker.
SelectClosesAndClears ==
    lastEvent.type = "select"
        => /\ lastEvent.actionCalls = <<lastEvent.item>>
           /\ ~isOpen
           /\ hoveredItemId = Null

\* an item selected while another item was hovered and the guard was active
SelectedWhileHoveredAndGuarded ==
    /\ lastEvent.type = "select"
    /\ lastEvent.guardBefore
    /\ lastEvent.hoveredBefore # Null /\ lastEvent.hoveredBefore # lastEvent.item
    /\ lastEvent.actionCalls = <<lastEvent.item>>
    /\ ~isOpen /\ hoveredItemId = Null

\* C11: an item's action callback is never invoked while the menu is closed.
ActionOnlyWhileOpen == lastEvent.actionCalls # <<>> => lastEvent.openBefore

\* an item's action invoked from an open menu, through the hotspot of a
\* published placement
ActionInvokedWhileOpen ==
    /\ lastEvent.type = "select"
    /\ lastEvent.openBefore
    /\ lastEvent.actionCalls = <<lastEvent.item>>
    /\ lastEvent.item < props.items

\* the layout function applied to the current inputs
LayoutOfCurrentInputs ==
    SortByAngle(RunSearch(LayoutInputs(isOpen, position, viewportSize)).calculatedPositions)

\* C12 as stated: the published list is the layout of the current inputs, is
\* empty whenever the menu is closed and has one placement per item whenever
\* it is open.
PublishedIsLayoutOnePerItem ==
    /\ itemPositions = LayoutOfCurrentInputs
    /\ ~isOpen => itemPositions = <<>>
    /\ isOpen => Len(itemPositions) = props.items

\* C12, amended: the published list is the layout of the current inputs, is
\* empty whenever the menu is closed or the base radius is not positive, and
\* has one placement per item whenever the menu is open with a positive base
\* radius.
PublishedIsLayout ==
    /\ itemPositions = LayoutOfCurrentInputs
    /\ (~isOpen \/ props.orbitRadius <= 0) => itemPositions = <<>>
    /\ (isOpen /\ props.orbitRadius > 0) => Len(itemPositions) = props.items

\* an open menu laid out again after a move of the anchor
RelaidOutAfterMove ==
    /\ lastEvent.type = "move"
    /\ isOpen
    /\ position.x # pointer.x - dragStartOffset.x
    /\ Len(itemPositions) = props.items
    /\ itemPositions = LayoutOfCurrentInputs

\* C16: the moved flag, once true, stays true through every event but an
\* accepted press; the end event clears dragging and leaves the flag as it is; an
\* accepted press clears the flag.
MovedFlagSticky ==
    [][/\ (hasMovedBeyondThreshold /\ ~(lastEvent'.type = "start" /\ lastEvent'.button \in {0, Null}))
            => hasMovedBeyondThreshold'
       /\ lastEvent'.type = "end"
            => (~isDragging' /\ hasMovedBeyondThreshold' = hasMovedBeyondThreshold)
       /\ (lastEvent'.type = "start" /\ isDragging') => ~hasMovedBeyondThreshold']_vars

\* a gesture that ended with the flag still set, the pointer back within the threshold
FlagKeptAfterEnd ==
    /\ lastEvent.type = "end"
    /\ ~isDragging
    /\ hasMovedBeyondThreshold
    /\ gesture.movedEver
    /\ StrictlyBelowThreshold(pointer, interactionStartCoords)

\* C17: a press with the left button or a touch sets dragging, clears the
\* moved flag, records the press point and its offset from the anchor's
\* corner and leaves the position as it is; a press with another button
\* leaves the drag state as it is.
StartSetsDragState ==
    [][lastEvent'.type = "start" =>
         IF lastEvent'.button \in {0, Null}
         THEN /\ isDragging'
              /\ ~hasMovedBeyondThreshold'
              /\ interactionStartCoords' = pointer'
              /\ dragStartOffset' = [x |-> pointer'.x - position.x, y |-> pointer'.y - position.y]
              /\ position' = position
         ELSE UNCHANGED dragVars]_vars

\* a left-button press that started a drag after an earlier gesture
PressedAgain ==
    /\ lastEvent.type = "start"
    /\ lastEvent.button = 0
    /\ isDragging
    /\ ~hasMovedBeyondThreshold
    /\ interactionStartCoords = pointer
    /\ isOpen

\* C18: at most one move handler and one up handler are on the window, none
\* while dragging is false and none after unmount.
ListenersOnlyWhileDragging ==
    /\ listeners.move \in {0, 1}
    /\ listeners.up \in {0, 1}
    /\ (~isDragging \/ ~mounted) => listeners = [move |-> 0, up |-> 0]
    /\ (isDragging /\ mounted) => listeners = [move |-> 1, up |-> 1]

\* an unmount in the middle of a drag that had its handlers registered anew
UnmountedMidDrag ==
    /\ ~mounted
    /\ isDragging
    /\ hasMovedBeyondThreshold
    /\ listeners = [move |-> 0, up |-> 0]

\* C33: the published placements lie on the radius of the last iteration that
\* ran, which is at most the base radius plus (the iteration cap - 1) times the
\* increment (9 * 5 pixels in the current revision, 14 * 10 in the earlier
\* one); after the iteration cap they are not on the radius incremented after
\* that iteration.
PublishedRadiusBounded ==
    Searched
        => /\ search.radius <= Px(props.orbitRadius)
                                  + (IF variant = "src" THEN Px(9 * 5) ELSE Px(14 * 10))
           /\ search.radius = search.radii[Len(search.radii)]
           /\ \A k \in 1 .. Len(itemPositions) : OnRadius(itemPositions[k], search.radius)
           /\ (search.exit = "maxIterations" /\ search.currentOrbitRadius # search.radius)
                 => \A k \in 1 .. Len(itemPositions) :
                        ~OnRadius(itemPositions[k], search.currentOrbitRadius)

\* placements published after the iteration cap, on the radius of the last
\* iteration while the radius variable has been incremented past it
PublishedAtIterationCap ==
    /\ search.exit = "maxIterations"
    /\ Len(itemPositions) > 1
    /\ search.radius = Px(props.orbitRadius)
                          + Px((MAX_ITERATIONS_FOR_RADIUS_ADJUSTMENT - 1) * ORBIT_RADIUS_INCREMENT_PIXELS)
    /\ search.currentOrbitRadius > search.radius
    /\ \A k \in 1 .. Len(itemPositions) : OnRadius(itemPositions[k], search.radius)

\* the k-th iteration of the search, at the k-th radius it tried
IterationAtRadius(k) ==
    Iteration(LayoutInputs(isOpen, position, viewportSize), search.radii[k])

\* C36: in every iteration the lengths of the safe arcs add up to the number
\* of safe samples times the angular step, for the arcs as extracted and for
\* the arcs after the wrap-around merge; the merge changes the number of arcs
\* by one at most.
TotalLengthIsSafeSampleCount ==
    Searched =>
        \A k \in 1 .. Len(search.radii) :
            LET it == IterationAtRadius(k)
                sampled == Cardinality(it.safeSamples) * angleStep
            IN  /\ TotalSafeAngleLength(it.extractedArcs) = sampled
                /\ TotalSafeAngleLength(it.safeArcs) = sampled
                /\ Len(it.safeArcs) \in {Len(it.extractedArcs), Len(it.extractedArcs) - 1}

\* a search whose last iteration merged two of three or more extracted arcs
\* and kept the total length
MergeKeptTotalLength ==
    /\ Searched
    /\ Len(search.extractedArcs) >= 3
    /\ Len(search.safeArcs) = Len(search.extractedArcs) - 1
    /\ TotalSafeAngleLength(search.safeArcs) = Cardinality(search.safeSamples) * angleStep
    /\ Cardinality(search.safeSamples) < resolution

\* C31: a pointer move that arrives while dragging is false, before any press
\* or after a release, leaves the position, the moved flag and the open/closed
\* state as they were.
StrayMoveChangesNothing ==
    [][(lastEvent'.type = "strayMove" /\ ~isDragging)
          => /\ position' = position
             /\ hasMovedBeyondThreshold' = hasMovedBeyondThreshold
             /\ isOpen' = isOpen]_vars

\* a pointer move after the release of a drag that took the anchor away and
\* set the moved flag
StrayMoveAfterDrag ==
    /\ lastEvent.type = "strayMove"
    /\ ~isDragging
    /\ interactionStartCoords # NoCoords
    /\ hasMovedBeyondThreshold
    /\ position # HandleResize(GetInitialPosition(innerSize), innerSize)

\* the step is a release over the main button whose toggle request is accepted:
\* the moved flag and the re-entrancy guard are both clear
AcceptedToggle ==
    /\ lastEvent'.type = "end"
    /\ lastEvent'.requested
    /\ ~lastEvent'.guardBefore
    /\ ~hasMovedBeyondThreshold

\* C32: a press, a move, a release and a resize leave the hovered-item marker
\* as it is, and leave isOpen as it is unless the release is an accepted
\* toggle; isOpen changes only by an accepted toggle, which flips it, or by
\* the selection of an item, which closes the menu.
MenuStateOnlyByToggleOrSelect ==
    [][/\ lastEvent'.type \in {"start", "move", "strayMove", "end", "resize"}
            => hoveredItemId' = hoveredItemId
       /\ (lastEvent'.type \in {"start", "move", "strayMove", "end", "resize"} /\ ~AcceptedToggle)
            => isOpen' = isOpen
       /\ isOpen' # isOpen
            => \/ AcceptedToggle /\ isOpen' = ~isOpen
               \/ lastEvent'.type = "select" /\ ~isOpen']_vars

\* a drag beyond the threshold under way while the menu is open and an item is hovered
DraggedWhileOpenAndHovered ==
    /\ lastEvent.type = "move"
    /\ hasMovedBeyondThreshold
    /\ isOpen
    /\ hoveredItemId # Null

\* C34: the re-entrancy guard of the mounted component is true exactly when
\* one guard timer is pending, and at most one guard timer is ever pending.
GuardIffTimerPending ==
    /\ timers \in {0, 1}
    /\ mounted => (isInteractingWithButton <=> timers = 1)

\* an item selected while the timer of an accepted toggle is pending
SelectedWhileTimerPending ==
    /\ mounted
    /\ lastEvent.type = "select"
    /\ lastEvent.guardBefore
    /\ isInteractingWithButton
    /\ timers = 1

\* C35: once the re-entrancy guard is set, its timer clears it (the timer
\* fires eventually), and with the guard clear a release over the main button
\* of a gesture that did not move beyond the threshold flips the open/closed
\* state again.
GuardClearedAndToggleAgain ==
    /\ (mounted /\ isInteractingWithButton) ~> (~isInteractingWithButton \/ ~mounted)
    /\ [][(/\ lastEvent'.type = "end"
            /\ lastEvent'.requested
            /\ ~isInteractingWithButton
            /\ ~hasMovedBeyondThreshold) => isOpen' = ~isOpen]_vars

\* a second toggle: the menu, opened by a toggle whose guard has been cleared
\* since, is closed by a release without movement beyond the threshold
ToggledAgainAfterGuardCleared ==
    /\ lastEvent.type = "end"
    /\ lastEvent.requested
    /\ ~lastEvent.guardBefore
    /\ lastEvent.openBefore
    /\ ~isOpen
    /\ ~hasMovedBeyondThreshold
    /\ isInteractingWithButton

====
